---- MODULE Spec2Model ----
(***************************************************************************)
(* Model of nv2apretty's fixed function pipeline tracker                   *)
(* (src/nv2apretty/subprocessors/fixed_function_shader.py).                *)
(*                                                                         *)
(* The module-level tables _TRACKED_NV097_OPS and _OP_TO_INFO_MAP, and one *)
(* FixedFunctionPipelineState object, are the state.  The opcode registry  *)
(* CLASS_TO_COMMAND_PROCESSOR_MAP[0x97] and the formatter table            *)
(* _PROCESSORS live in nv2apretty.extracted_data; the registry is an input *)
(* of the model, drawn from the families defined below.                    *)
(***************************************************************************)
EXTENDS Integers, Sequences, FiniteSets, TLC

VARIABLES
    registry,   \* keys of CLASS_TO_COMMAND_PROCESSOR_MAP[0x97], in dict order
    imported,   \* the module body (line 95) has run
    tracked,    \* _TRACKED_NV097_OPS
    opToInfo,   \* _OP_TO_INFO_MAP
    state,      \* FixedFunctionPipelineState._state
    ret         \* the last call made and what it returned or raised

vars == <<registry, imported, tracked, opToInfo, state, ret>>

----------------------------------------------------------------------------
(* Python values.  Every value carries its type tag, as type() would give. *)

PyNone == [t |-> "None"]
PyInt(n) == [t |-> "int", v |-> n]
PyBool(b) == [t |-> "bool", v |-> b]
PyStr(s) == [t |-> "str", v |-> s]
PyList(s) == [t |-> "list", v |-> s]
PyFloat(sign, exponent, fraction) == [t |-> "float", v |-> <<sign, exponent, fraction>>]
PyChar(s, k) == [t |-> "char", v |-> <<s, k>>]
Raise(e) == [t |-> "raise", v |-> e]

IsRaise(x) == x.t = "raise"

\* bool(x) / "if x:"
Truthy(x) ==
    CASE x.t = "None" -> FALSE
      [] x.t = "int" -> x.v # 0
      [] x.t = "bool" -> x.v
      [] x.t = "str" -> Len(x.v) > 0
      [] x.t = "list" -> Len(x.v) > 0
      [] OTHER -> TRUE

\* x != 0
NeZero(x) == IF x.t = "int" THEN x.v # 0 ELSE TRUE

\* x[k], k a 0-based index
Index(x, k) ==
    CASE x.t = "list" -> IF k < Len(x.v) THEN x.v[k + 1] ELSE Raise("IndexError")
      [] x.t = "str" -> IF k < Len(x.v) THEN PyChar(x.v, k) ELSE Raise("IndexError")
      [] OTHER -> Raise("TypeError")

\* len(x) of a list or str
PyLen(x) == Len(x.v)

\* a dict with no keys
EmptyDict == [k \in {} |-> 0]

\* d[k] = v
DictSet(d, k, v) == [j \in DOMAIN d \cup {k} |-> IF j = k THEN v ELSE d[j]]

\* d.get(k, default) on the frame state, whose values are ints
StateGet(st, k, default) == IF k \in DOMAIN st THEN PyInt(st[k]) ELSE default

----------------------------------------------------------------------------
(* Opcode descriptors: the keys of the registry.  An int key is a scalar   *)
(* opcode; StateArray and StructStateArray carry base/stride/counts.  A    *)
(* key of any other type is kept with the value it hashes and compares     *)
(* equal to (-1 when it equals no opcode).                                 *)

Scalar(op) ==
    [kind |-> "int", base |-> op, stride |-> 0, num_elements |-> 0,
     struct_stride |-> 0, struct_count |-> 0]
StateArray(base, stride, num_elements) ==
    [kind |-> "StateArray", base |-> base, stride |-> stride,
     num_elements |-> num_elements, struct_stride |-> 0, struct_count |-> 0]
StructStateArray(base, stride, num_elements, struct_stride, struct_count) ==
    [kind |-> "StructStateArray", base |-> base, stride |-> stride,
     num_elements |-> num_elements, struct_stride |-> struct_stride,
     struct_count |-> struct_count]
OtherKey(eq) ==
    [kind |-> "Other", base |-> eq, stride |-> 0, num_elements |-> 0,
     struct_stride |-> 0, struct_count |-> 0]

\* NV097 opcode values (nv2apretty.extracted_data)
NV097_SET_COLOR_MATERIAL == 664
NV097_SET_FOG_ENABLE == 676
NV097_SET_FOG_GEN_MODE == 672
NV097_SET_LIGHT_CONTROL == 660
NV097_SET_LIGHT_ENABLE_MASK == 956
NV097_SET_LIGHTING_ENABLE == 788
NV097_SET_POINT_PARAMS == 2608
NV097_SET_POINT_PARAMS_ENABLE == 792
NV097_SET_POINT_SIZE == 1084
NV097_SET_POINT_SMOOTH_ENABLE == 796
NV097_SET_SKIN_MODE == 808
NV097_SET_SPECULAR_ENABLE == 952
NV097_SET_TEXGEN_Q == 972
NV097_SET_TEXGEN_R == 968
NV097_SET_TEXGEN_S == 960
NV097_SET_TEXGEN_T == 964
NV097_SET_TEXTURE_MATRIX_ENABLE == 1056
NV097_SET_TWO_SIDE_LIGHT_EN == 6084
\* opcodes of the registry that the tracker has no interest in
NV097_NO_OPERATION == 256
NV097_SET_LIGHT_AMBIENT_COLOR == 4096

_BASE_TRACKED_NV097_OPS ==
    { NV097_SET_COLOR_MATERIAL, NV097_SET_FOG_ENABLE, NV097_SET_FOG_GEN_MODE,
      NV097_SET_LIGHT_CONTROL, NV097_SET_LIGHT_ENABLE_MASK,
      NV097_SET_LIGHTING_ENABLE, NV097_SET_POINT_PARAMS,
      NV097_SET_POINT_PARAMS_ENABLE, NV097_SET_POINT_SIZE,
      NV097_SET_POINT_SMOOTH_ENABLE, NV097_SET_SKIN_MODE,
      NV097_SET_SPECULAR_ENABLE, NV097_SET_TWO_SIDE_LIGHT_EN,
      NV097_SET_TEXTURE_MATRIX_ENABLE, NV097_SET_TEXGEN_S, NV097_SET_TEXGEN_T,
      NV097_SET_TEXGEN_R, NV097_SET_TEXGEN_Q }

----------------------------------------------------------------------------
(* _populate_tracked_ops                                                   *)

\* range(n) as a set
Range(n) == 0 .. (n - 1)

\* lines 82-83: the opcodes one StateArray adds
ArrayOps(op_info) ==
    { op_info.base + i * op_info.stride : i \in Range(op_info.num_elements) }

\* the struct loop of lines 88-91 without line 91 (base += struct_stride)
RECURSIVE StructOpsFixedBase(_, _, _)
StructOpsFixedBase(op_info, j, base) ==
    IF j >= op_info.struct_count THEN {}
    ELSE { base + i * op_info.stride : i \in Range(op_info.num_elements) }
         \cup StructOpsFixedBase(op_info, j + 1, base)

\* lines 87-91: the opcodes a StructStateArray adds from struct j on, base
\* being the running base of struct j
RECURSIVE StructOps(_, _, _)
StructOps(op_info, j, base) ==
    IF j >= op_info.struct_count THEN {}
    ELSE { base + i * op_info.stride : i \in Range(op_info.num_elements) }
         \cup StructOps(op_info, j + 1, base + op_info.struct_stride)

\* lines 65-92: the loop over the registry from entry i on; the result is
\* <<_TRACKED_NV097_OPS, _OP_TO_INFO_MAP>>
RECURSIVE PopulateLoop(_, _, _, _)
PopulateLoop(reg, i, tr, info) ==
    IF i > Len(reg) THEN <<tr, info>>
    ELSE
      LET op_info == reg[i]
          base_op == op_info.base
      IN IF base_op \notin _BASE_TRACKED_NV097_OPS
         THEN PopulateLoop(reg, i + 1, tr, info)
         ELSE
           LET info2 == DictSet(info, base_op, op_info)
               tr2 == CASE op_info.kind = "int" -> tr \cup {op_info.base}
                        [] op_info.kind = "StateArray" -> tr \cup ArrayOps(op_info)
                        [] op_info.kind = "StructStateArray" ->
                             tr \cup StructOps(op_info, 0, op_info.base)
                        [] OTHER -> tr
           IN PopulateLoop(reg, i + 1, tr2, info2)

\* lines 59-92, and the call at line 95
PopulateTrackedOps ==
    /\ IF tracked # {}
       THEN UNCHANGED <<tracked, opToInfo>>
       ELSE LET r == PopulateLoop(registry, 1, tracked, opToInfo)
            IN /\ tracked' = r[1]
               /\ opToInfo' = r[2]
    /\ imported' = TRUE
    /\ ret' = [fn |-> "_populate_tracked_ops", args |-> <<>>, val |-> PyNone]
    /\ UNCHANGED <<registry, state>>

----------------------------------------------------------------------------
(* as_float, and the formatter table                                       *)

\* lines 98-100: struct.pack("!I", int_val) accepts 0 <= int_val < 2^32 only;
\* the big-endian bytes are read back as a float: the sign bit, 8 exponent
\* bits, 23 fraction bits.  A word is split at bit 16 (65536 = 2^16), the
\* model's integers ending at 2^31 - 1.
as_float(x) ==
    IF x.t # "int" THEN Raise("struct.error")
    ELSE IF x.v < 0 \/ (x.v \div 65536) >= 65536 THEN Raise("struct.error")
    ELSE PyFloat((x.v \div 65536) \div 32768,
                 ((x.v \div 65536) \div 128) % 256,
                 x.v % (128 * 65536))

HexDigits == <<"0", "1", "2", "3", "4", "5", "6", "7",
               "8", "9", "A", "B", "C", "D", "E", "F">>

\* f"{n:X}" for n >= 0
RECURSIVE Hex(_)
Hex(n) == IF n < 16 THEN HexDigits[n + 1]
          ELSE Hex(n \div 16) \o HexDigits[(n % 16) + 1]

\* the opcodes (0x97, op) that _PROCESSORS has a formatter for
ProcessorOps ==
    { NV097_SET_SKIN_MODE, NV097_SET_FOG_GEN_MODE, NV097_SET_COLOR_MATERIAL,
      NV097_SET_TEXGEN_S, NV097_SET_TEXGEN_T }

\* processor(0, 0x97, param): the formatter's text
ProcessorText(op, param) == PyStr("{" \o Hex(op) \o ":" \o Hex(param) \o "}")

\* lines 162-164, 173-174, 187-188:
\* processor(0, 0x97, param) if processor else f"0x{param:X}"
FormatValue(op, param) ==
    IF op \in ProcessorOps THEN ProcessorText(op, param)
    ELSE PyStr("0x" \o Hex(param))

----------------------------------------------------------------------------
(* FixedFunctionPipelineState                                              *)

\* update without the test of line 110
UpdateStateUnfiltered(st, tr, nv_op, nv_param) == DictSet(st, nv_op, nv_param)

\* update that keeps a value already stored (setdefault for line 112)
UpdateStateKeepFirst(st, tr, nv_op, nv_param) ==
    IF nv_op \notin tr \/ nv_op \in DOMAIN st THEN st
    ELSE DictSet(st, nv_op, nv_param)

\* lines 109-112: update, as the new _state
UpdateState(st, tr, nv_op, nv_param) ==
    IF nv_op \notin tr THEN st ELSE DictSet(st, nv_op, nv_param)

\* the element loop with "continue" for "return None" at lines 126-127
RECURSIVE ElementLoopSkipping(_, _, _, _, _, _)
ElementLoopSkipping(st, op_info, base, i, default, acc) ==
    IF i >= op_info.num_elements THEN PyList(acc)
    ELSE LET val == StateGet(st, base + i * op_info.stride, default)
         IN ElementLoopSkipping(st, op_info, base, i + 1, default,
                                IF val.t = "None" THEN acc ELSE Append(acc, val))

\* lines 124-130 and 137-141: the element loop from element i on, over the
\* elements at base + i * stride; acc holds the values appended so far.
\* PyNone is the early "return None".
RECURSIVE ElementLoop(_, _, _, _, _, _)
ElementLoop(st, op_info, base, i, default, acc) ==
    IF i >= op_info.num_elements THEN PyList(acc)
    ELSE LET val == StateGet(st, base + i * op_info.stride, default)
         IN IF val.t = "None" THEN PyNone
            ELSE ElementLoop(st, op_info, base, i + 1, default, Append(acc, val))

\* the struct loop without line 143 (base += op_info.struct_stride)
RECURSIVE StructLoopFixedBase(_, _, _, _, _, _)
StructLoopFixedBase(st, op_info, j, base, default, acc) ==
    IF j >= op_info.struct_count THEN PyList(acc)
    ELSE LET element_values == ElementLoop(st, op_info, base, 0, default, <<>>)
         IN IF element_values.t = "None" THEN PyNone
            ELSE StructLoopFixedBase(st, op_info, j + 1, base, default,
                                     Append(acc, element_values))

\* lines 135-145: the struct loop from struct j on, base being the running
\* base of struct j
RECURSIVE StructLoop(_, _, _, _, _, _)
StructLoop(st, op_info, j, base, default, acc) ==
    IF j >= op_info.struct_count THEN PyList(acc)
    ELSE LET element_values == ElementLoop(st, op_info, base, 0, default, <<>>)
         IN IF element_values.t = "None" THEN PyNone
            ELSE StructLoop(st, op_info, j + 1, base + op_info.struct_stride,
                            default, Append(acc, element_values))

\* lines 114-148
get_raw_value(st, info, opcode, default) ==
    IF opcode \notin DOMAIN info THEN StateGet(st, opcode, default)
    ELSE LET op_info == info[opcode]
         IN CASE op_info.kind = "int" -> StateGet(st, opcode, default)
              [] op_info.kind = "StateArray" ->
                   ElementLoop(st, op_info, op_info.base, 0, default, <<>>)
              [] op_info.kind = "StructStateArray" ->
                   StructLoop(st, op_info, 0, op_info.base, default, <<>>)
              [] OTHER -> Raise("ValueError")

\* [x] * n
Repeat(x, n) == [k \in 1 .. n |-> x]

\* lines 171-175 and 185-188: one decoded string per element of a list of
\* raw values, element i keyed by base + i * stride
ProcessElements(op_info, base, raw_list) ==
    PyList([k \in 1 .. Len(raw_list) |->
              FormatValue(base + (k - 1) * op_info.stride, raw_list[k].v)])

\* lines 182-191: the loop over the structs of a raw value from struct j on
\* (1-based position in raw_structs), base being the running base
RECURSIVE ProcessStructs(_, _, _, _, _)
ProcessStructs(op_info, raw_structs, j, base, acc) ==
    IF j > Len(raw_structs) THEN PyList(acc)
    ELSE ProcessStructs(op_info, raw_structs, j + 1, base + op_info.struct_stride,
                        Append(acc, ProcessElements(op_info, base, raw_structs[j].v)))

\* lines 178-179: what _process gives for a StructStateArray with no raw value
ProcessStructAbsent(op_info, default_string_value) ==
    PyList(Repeat(PyStr(default_string_value), op_info.num_elements))

\* lines 150-194
_process(st, info, opcode, default_raw_value, default_string_value) ==
    LET raw_value == get_raw_value(st, info, opcode, default_raw_value)
    IN IF IsRaise(raw_value) THEN raw_value
       ELSE IF opcode \notin DOMAIN info \/ info[opcode].kind = "int"
       THEN IF raw_value.t = "None" THEN PyStr(default_string_value)
            ELSE FormatValue(opcode, raw_value.v)
       ELSE LET op_info == info[opcode]
            IN CASE op_info.kind = "StateArray" ->
                      IF raw_value.t = "None"
                      THEN PyList(Repeat(PyStr(default_string_value),
                                         op_info.num_elements))
                      ELSE ProcessElements(op_info, op_info.base, raw_value.v)
                 [] op_info.kind = "StructStateArray" ->
                      IF raw_value.t = "None"
                      THEN ProcessStructAbsent(op_info, default_string_value)
                      ELSE ProcessStructs(op_info, raw_value.v, 1, op_info.base, <<>>)
                 [] OTHER -> Raise("ValueError")

----------------------------------------------------------------------------
(* __str__: the report.  A line is kept as the name of its f-string and    *)
(* the values interpolated into it; the joined text is kept as its lines.  *)

Line(fmt, args) == [fmt |-> fmt, args |-> args]
PyText(lines) == [t |-> "text", v |-> lines]

\* the first exception among values computed in this order, PyNone if none
RECURSIVE FirstRaiseFrom(_, _)
FirstRaiseFrom(values, k) ==
    IF k > Len(values) THEN PyNone
    ELSE IF IsRaise(values[k]) THEN values[k]
    ELSE FirstRaiseFrom(values, k + 1)
FirstRaise(values) == FirstRaiseFrom(values, 1)

\* a section's lines, unless computing one of values raised
Section(values, lines) ==
    LET r == FirstRaise(values) IN IF IsRaise(r) THEN r ELSE PyList(lines)

\* self._process(opcode)
Decode(st, info, opcode) == _process(st, info, opcode, PyNone, "<UNKNOWN>")

\* lines 199-205
LightingSection(st, info) ==
    LET raw == get_raw_value(st, info, NV097_SET_LIGHTING_ENABLE, PyInt(0))
        lighting_enabled == NeZero(raw)
        two == get_raw_value(st, info, NV097_SET_TWO_SIDE_LIGHT_EN, PyInt(0))
        cm == Decode(st, info, NV097_SET_COLOR_MATERIAL)
        lc == Decode(st, info, NV097_SET_LIGHT_CONTROL)
        lem == Decode(st, info, NV097_SET_LIGHT_ENABLE_MASK)
    IN IF IsRaise(raw) THEN raw
       ELSE IF ~lighting_enabled
       THEN PyList(<<Line("Lighting", <<PyBool(FALSE)>>)>>)
       ELSE Section(<<two, cm, lc, lem>>,
                    << Line("Lighting", <<PyBool(TRUE)>>),
                       Line("Two sided", <<PyBool(Truthy(two))>>),
                       Line("Color material", <<cm>>),
                       Line("Light control", <<lc>>),
                       Line("Light enable", <<lem>>) >>)

\* line 207
SpecularSection(st, info) ==
    LET raw == get_raw_value(st, info, NV097_SET_SPECULAR_ENABLE, PyInt(0))
    IN Section(<<raw>>, <<Line("Specular enable", <<PyBool(Truthy(raw))>>)>>)

\* lines 209-212
FogSection(st, info) ==
    LET raw == get_raw_value(st, info, NV097_SET_FOG_ENABLE, PyInt(0))
        fog_enabled == NeZero(raw)
        mode == Decode(st, info, NV097_SET_FOG_GEN_MODE)
    IN IF IsRaise(raw) THEN raw
       ELSE IF ~fog_enabled
       THEN PyList(<<Line("Fog enable", <<PyBool(FALSE)>>)>>)
       ELSE Section(<<mode>>, << Line("Fog enable", <<PyBool(TRUE)>>),
                                 Line("Fog gen mode", <<mode>>) >>)

\* line 214
SkinningSection(st, info) ==
    LET mode == Decode(st, info, NV097_SET_SKIN_MODE)
    IN Section(<<mode>>, <<Line("Skinning mode", <<mode>>)>>)

\* as_float(params[k])
AsFloatAt(params, k) ==
    LET e == Index(params, k) IN IF IsRaise(e) THEN e ELSE as_float(e)

\* lines 222-235: the lines computed from the point params array
PointParamLines(params) ==
    IF ~Truthy(params) THEN PyList(<<>>)
    ELSE LET a == AsFloatAt(params, 0)
             b == AsFloatAt(params, 1)
             c == AsFloatAt(params, 2)
             range == AsFloatAt(params, 3)
             bias == AsFloatAt(params, 6)
             min == AsFloatAt(params, 7)
         IN Section(<<a, b, c, range, bias, min>>,
                    << Line("Size multiplier", <<a, b, c>>),
                       Line("Size range", <<range>>),
                       Line("Scale bias", <<bias>>),
                       Line("Minimum size", <<min>>) >>)

\* lines 216-235
PointParamsSection(st, info) ==
    LET raw == get_raw_value(st, info, NV097_SET_POINT_PARAMS_ENABLE, PyInt(0))
        point_params_enabled == NeZero(raw)
        size == Decode(st, info, NV097_SET_POINT_SIZE)
        params == get_raw_value(st, info, NV097_SET_POINT_PARAMS, PyNone)
        plines == PointParamLines(params)
    IN IF IsRaise(raw) THEN raw
       ELSE IF ~point_params_enabled
       THEN PyList(<<Line("Point params enable", <<PyBool(FALSE)>>)>>)
       ELSE IF IsRaise(size) THEN size
       ELSE IF IsRaise(params) THEN params
       ELSE IF IsRaise(plines) THEN plines
       ELSE PyList(<< Line("Point params enable", <<PyBool(TRUE)>>),
                      Line("Point size", <<size>>) >> \o plines.v)

\* lines 237-238
PointSmoothSection(st, info) ==
    LET raw == get_raw_value(st, info, NV097_SET_POINT_SMOOTH_ENABLE, PyInt(0))
    IN Section(<<raw>>,
               IF Truthy(raw) THEN <<Line("Point smooth", <<>>)>> ELSE <<>>)

\* line 247: the line of element index i
TexGenLine(s_vals, t_vals, r_vals, q_vals, i) ==
    LET s == Index(s_vals, i)
        t == Index(t_vals, i)
        r == Index(r_vals, i)
        q == Index(q_vals, i)
        bad == FirstRaise(<<s, t, r, q>>)
    IN IF IsRaise(bad) THEN bad ELSE Line("TexGen", <<PyInt(i), s, t, r, q>>)

\* the generator of lines 246-249 run over range(1, len(s_vals))
RECURSIVE TexGenLinesFromOne(_, _, _, _, _, _)
TexGenLinesFromOne(s_vals, t_vals, r_vals, q_vals, i, acc) ==
    IF i + 1 >= PyLen(s_vals) THEN PyList(acc)
    ELSE LET line == TexGenLine(s_vals, t_vals, r_vals, q_vals, i + 1)
         IN IF "t" \in DOMAIN line THEN line
            ELSE TexGenLinesFromOne(s_vals, t_vals, r_vals, q_vals, i + 1,
                                    Append(acc, line))

\* lines 246-249: the generator over range(len(s_vals)) from index i on
RECURSIVE TexGenLines(_, _, _, _, _, _)
TexGenLines(s_vals, t_vals, r_vals, q_vals, i, acc) ==
    IF i >= PyLen(s_vals) THEN PyList(acc)
    ELSE LET line == TexGenLine(s_vals, t_vals, r_vals, q_vals, i)
         IN IF "t" \in DOMAIN line THEN line
            ELSE TexGenLines(s_vals, t_vals, r_vals, q_vals, i + 1,
                             Append(acc, line))

\* line 245: all([s_vals, t_vals, r_vals, q_vals])
TexGenGate(s_vals, t_vals, r_vals, q_vals) ==
    Truthy(s_vals) /\ Truthy(t_vals) /\ Truthy(r_vals) /\ Truthy(q_vals)

\* lines 240-249
TexGenSection(st, info) ==
    LET s_vals == Decode(st, info, NV097_SET_TEXGEN_S)
        t_vals == Decode(st, info, NV097_SET_TEXGEN_T)
        r_vals == Decode(st, info, NV097_SET_TEXGEN_R)
        q_vals == Decode(st, info, NV097_SET_TEXGEN_Q)
        bad == FirstRaise(<<s_vals, t_vals, r_vals, q_vals>>)
    IN IF IsRaise(bad) THEN bad
       ELSE IF ~TexGenGate(s_vals, t_vals, r_vals, q_vals)
       THEN PyList(<<Line("TexGen header", <<>>)>>)
       ELSE LET ls == TexGenLines(s_vals, t_vals, r_vals, q_vals, 0, <<>>)
            IN IF IsRaise(ls) THEN ls
               ELSE PyList(<<Line("TexGen header", <<>>)>> \o ls.v)

\* lines 251-254
TextureMatrixSection(st, info) ==
    LET tex_matrix_en ==
            get_raw_value(st, info, NV097_SET_TEXTURE_MATRIX_ENABLE, PyNone)
    IN IF IsRaise(tex_matrix_en) THEN tex_matrix_en
       ELSE IF ~Truthy(tex_matrix_en) THEN PyList(<<>>)
       ELSE IF tex_matrix_en.t # "list" THEN Raise("TypeError")
       ELSE PyList(<<Line("TextureMatrix",
                          [k \in 1 .. Len(tex_matrix_en.v) |->
                              PyBool(Truthy(tex_matrix_en.v[k]))])>>)

\* the lines of the sections from section k on, or the first exception
RECURSIVE JoinSections(_, _, _)
JoinSections(sections, k, acc) ==
    IF k > Len(sections) THEN PyText(acc)
    ELSE IF IsRaise(sections[k]) THEN sections[k]
    ELSE JoinSections(sections, k + 1, acc \o sections[k].v)

\* lines 196-256
__str__(st, info) ==
    JoinSections(<< LightingSection(st, info), SpecularSection(st, info),
                    FogSection(st, info), SkinningSection(st, info),
                    PointParamsSection(st, info), PointSmoothSection(st, info),
                    TexGenSection(st, info), TextureMatrixSection(st, info) >>,
                 1, <<>>)

----------------------------------------------------------------------------
(* The calls a client makes.  Each records itself in ret.                  *)

\* the opcodes of a set of (opcode, parameter) pairs
OpsOf(pairs) == { p[1] : p \in pairs }

\* FixedFunctionPipelineState(): a fresh frame state
NewFrame ==
    /\ imported
    /\ state' = EmptyDict
    /\ ret' = [fn |-> "__init__", args |-> <<>>, val |-> PyNone]
    /\ UNCHANGED <<registry, imported, tracked, opToInfo>>

\* update(nv_op, nv_param), the pair drawn from one of the groups of pairs;
\* a frame is fed from one group only
Update(groups) ==
    /\ imported
    /\ \E g \in groups : \E p \in g :
          /\ DOMAIN state \subseteq OpsOf(g)
          /\ state' = UpdateState(state, tracked, p[1], p[2])
          /\ ret' = [fn |-> "update", args |-> p, val |-> PyNone]
    /\ UNCHANGED <<registry, imported, tracked, opToInfo>>

\* get_raw_value(opcode, default)
GetRawValue(opcodes, defaults) ==
    /\ imported
    /\ \E opcode \in opcodes : \E default \in defaults :
          ret' = [fn |-> "get_raw_value", args |-> <<opcode, default>>,
                  val |-> get_raw_value(state, opToInfo, opcode, default)]
    /\ UNCHANGED <<registry, imported, tracked, opToInfo, state>>

\* _process(opcode, default_raw_value)
Process(opcodes, defaults) ==
    /\ imported
    /\ \E opcode \in opcodes : \E default \in defaults :
          ret' = [fn |-> "_process", args |-> <<opcode, default>>,
                  val |-> _process(state, opToInfo, opcode, default, "<UNKNOWN>")]
    /\ UNCHANGED <<registry, imported, tracked, opToInfo, state>>

\* str(frame_state)
Report ==
    /\ imported
    /\ ret' = [fn |-> "__str__", args |-> <<>>, val |-> __str__(state, opToInfo)]
    /\ UNCHANGED <<registry, imported, tracked, opToInfo, state>>

InitWith(registries) ==
    /\ registry \in registries
    /\ imported = FALSE
    /\ tracked = {}
    /\ opToInfo = EmptyDict
    /\ state = EmptyDict
    /\ ret = [fn |-> "import", args |-> <<>>, val |-> PyNone]

----------------------------------------------------------------------------
(* Spec: the state store and the reconstructor over registries that hold   *)
(* a scalar, arrays and struct arrays, tracked and not.                    *)

\* parameters written are 0 .. MaxParam
MaxParam == 1

RegArrays ==
    << Scalar(NV097_NO_OPERATION),
       Scalar(NV097_SET_LIGHTING_ENABLE),
       StateArray(NV097_SET_TEXTURE_MATRIX_ENABLE, 4, 3),
       StateArray(NV097_SET_LIGHT_AMBIENT_COLOR, 4, 3) >>

RegStructs ==
    << StructStateArray(NV097_SET_TEXGEN_S, 4, 2, 16, 2),
       StructStateArray(NV097_SET_LIGHT_AMBIENT_COLOR, 4, 2, 128, 2) >>

MainRegistries == {RegArrays, RegStructs}

\* the opcodes fed to update under RegArrays: the elements of its tracked
\* descriptors, the opcode past the end of the array, and an opcode of a
\* descriptor outside the interest set
ArrayUpdateOps ==
    { NV097_SET_LIGHTING_ENABLE, NV097_SET_LIGHT_AMBIENT_COLOR }
    \cup { NV097_SET_TEXTURE_MATRIX_ENABLE + 4 * i : i \in 0 .. 3 }

\* the opcodes fed to update under RegStructs: the elements of its tracked
\* descriptor, an opcode in the gap between two structs, and an opcode of a
\* descriptor outside the interest set
StructUpdateOps ==
    { NV097_SET_LIGHT_AMBIENT_COLOR }
    \cup { NV097_SET_TEXGEN_S + 16 * j + 4 * i : j \in 0 .. 1, i \in 0 .. 2 }

MainUpdates ==
    { ArrayUpdateOps \X (0 .. MaxParam), StructUpdateOps \X (0 .. MaxParam) }

\* the opcodes asked of get_raw_value and _process: every base opcode, an
\* element opcode that is no base, and an opcode with no descriptor
MainQueryOps ==
    { NV097_SET_LIGHTING_ENABLE, NV097_SET_TEXTURE_MATRIX_ENABLE,
      NV097_SET_TEXTURE_MATRIX_ENABLE + 4, NV097_SET_TEXGEN_S,
      NV097_SET_SKIN_MODE, NV097_SET_LIGHT_AMBIENT_COLOR }

\* the defaults passed: none, and an int no update writes
MainDefaults == { PyNone, PyInt(MaxParam + 1) }

Init == InitWith(MainRegistries)

Next ==
    \/ PopulateTrackedOps
    \/ NewFrame
    \/ Update(MainUpdates)
    \/ GetRawValue(MainQueryOps, MainDefaults)
    \/ Process(MainQueryOps, MainDefaults)
    \/ Report

Spec == Init /\ [][Next]_vars

----------------------------------------------------------------------------
(* Claims checked under Spec                                               *)

\* the opcode and parameter of the call recorded in ret
CallOp == ret.args[1]
CallOpNext == ret'.args[1]
CallParamNext == ret'.args[2]

\* C1: every key of the frame state is a tracked opcode, and an update whose
\* opcode is not tracked leaves the frame state, and so the report, exactly
\* as it was
C1_OnlyTrackedStored ==
    [][ /\ DOMAIN state \subseteq tracked
        /\ DOMAIN state' \subseteq tracked'
        /\ (ret'.fn = "update" /\ CallOpNext \notin tracked) =>
              /\ state' = state
              /\ __str__(state', opToInfo') = __str__(state, opToInfo) ]_vars

\* C1 witness: an update of an untracked opcode has been made on a frame
\* state that holds values
C1_Witness ==
    /\ ret.fn = "update"
    /\ CallOp \notin tracked
    /\ DOMAIN state # {}

\* C2: an update of a tracked opcode stores its parameter under that opcode,
\* replacing what was there and touching no other key; the stored value is
\* what a lookup of the opcode gives, and it stays until the next update or
\* a new frame state
C2_LastWriteWins ==
    [][ /\ (ret'.fn = "update" /\ CallOpNext \in tracked) =>
             /\ DOMAIN state' = DOMAIN state \cup {CallOpNext}
             /\ state'[CallOpNext] = CallParamNext
             /\ StateGet(state', CallOpNext, PyNone) = PyInt(CallParamNext)
             /\ (CallOpNext \in DOMAIN opToInfo /\ opToInfo[CallOpNext].kind = "int")
                  => get_raw_value(state', opToInfo', CallOpNext, PyNone)
                       = PyInt(CallParamNext)
             /\ \A k \in DOMAIN state : k # CallOpNext => state'[k] = state[k]
        /\ (ret'.fn \notin {"update", "__init__"}) => state' = state ]_vars

\* C2 witness: a tracked opcode has been updated on a frame state that holds
\* other values too, and holds the parameter of that update
C2_Witness ==
    /\ ret.fn = "update"
    /\ CallOp \in tracked
    /\ state[CallOp] = ret.args[2]
    /\ Cardinality(DOMAIN state) >= 2

\* the descriptor get_raw_value or _process was called on, when it has one
CallHasKind(kind) ==
    /\ ret.fn \in {"get_raw_value", "_process"}
    /\ CallOp \in DOMAIN opToInfo
    /\ opToInfo[CallOp].kind = kind

\* element i of struct j of descriptor d is stored
Present(d, j, i) == (d.base + j * d.struct_stride + i * d.stride) \in DOMAIN state

\* what element i of struct j of descriptor d resolves to under a default
Resolved(d, j, i, default) ==
    IF Present(d, j, i)
    THEN PyInt(state[d.base + j * d.struct_stride + i * d.stride])
    ELSE default

\* C3: get_raw_value on an Array descriptor returns None exactly when some
\* element is absent and the default is None; otherwise a list of count
\* entries, entry i being the stored value of base + i * stride or else the
\* default, so that it is never None under a default that is not None
C3_ArrayAllOrNothing ==
    (ret.fn = "get_raw_value" /\ CallHasKind("StateArray")) =>
       LET d == opToInfo[CallOp]
           default == ret.args[2]
           missing == \E i \in Range(d.num_elements) :
                         ~Present(d, 0, i) /\ default.t = "None"
       IN /\ (ret.val.t = "None") <=> missing
          /\ ~missing =>
               /\ ret.val.t = "list"
               /\ Len(ret.val.v) = d.num_elements
               /\ \A i \in Range(d.num_elements) :
                     ret.val.v[i + 1] = Resolved(d, 0, i, default)
          /\ default.t # "None" => ret.val.t # "None"

\* C3 witness: get_raw_value on an Array descriptor of which some elements
\* are stored and some are not, under a default, has returned a list
C3_Witness ==
    /\ ret.fn = "get_raw_value" /\ CallHasKind("StateArray")
    /\ ret.val.t = "list"
    /\ \E i, k \in Range(opToInfo[CallOp].num_elements) :
          Present(opToInfo[CallOp], 0, i) /\ ~Present(opToInfo[CallOp], 0, k)

\* C4: get_raw_value on a StructArray descriptor of which every element is
\* stored returns struct_count lists of count entries, entry (j, i) being the
\* value stored at base + j * struct_stride + i * stride; with an element
\* missing and no default the result is None
C4_StructArrayOrder ==
    (ret.fn = "get_raw_value" /\ CallHasKind("StructStateArray")) =>
       LET d == opToInfo[CallOp]
           default == ret.args[2]
           complete == \A j \in Range(d.struct_count), i \in Range(d.num_elements) :
                          Present(d, j, i)
       IN /\ complete =>
               /\ ret.val.t = "list"
               /\ Len(ret.val.v) = d.struct_count
               /\ \A j \in Range(d.struct_count) :
                     /\ ret.val.v[j + 1].t = "list"
                     /\ Len(ret.val.v[j + 1].v) = d.num_elements
                     /\ \A i \in Range(d.num_elements) :
                           ret.val.v[j + 1].v[i + 1] =
                             PyInt(state[d.base + j * d.struct_stride + i * d.stride])
          /\ (~complete /\ default.t = "None") => ret.val.t = "None"

\* C4 witness: get_raw_value on a StructArray descriptor with every element
\* stored, two structs holding different values
C4_Witness ==
    /\ ret.fn = "get_raw_value" /\ CallHasKind("StructStateArray")
    /\ ret.val.t = "list"
    /\ \A j \in Range(opToInfo[CallOp].struct_count),
          i \in Range(opToInfo[CallOp].num_elements) : Present(opToInfo[CallOp], j, i)
    /\ ret.val.v[1] # ret.val.v[2]

\* C9: _process on a StructArray descriptor whose raw value is absent gives
\* struct_count lists, each of count copies of the default text
C9_StructAbsentNested ==
    ( /\ ret.fn = "_process" /\ CallHasKind("StructStateArray")
      /\ get_raw_value(state, opToInfo, CallOp, ret.args[2]).t = "None" ) =>
       LET d == opToInfo[CallOp]
       IN ret.val = PyList(Repeat(PyList(Repeat(PyStr("<UNKNOWN>"), d.num_elements)),
                                  d.struct_count))

----------------------------------------------------------------------------
(* SpecExpand: _populate_tracked_ops over every registry made of entries   *)
(* of a pool: descriptors of each kind inside and outside the interest     *)
(* set, and keys of another type, one equal to an interest opcode and one  *)
(* equal to none.                                                          *)

ExpandPool ==
    << Scalar(NV097_SET_LIGHTING_ENABLE),
       Scalar(NV097_NO_OPERATION),
       StateArray(NV097_SET_TEXGEN_S, 16, 4),
       StateArray(NV097_SET_LIGHT_AMBIENT_COLOR, 4, 3),
       StructStateArray(NV097_SET_POINT_PARAMS, 4, 2, 16, 3),
       StructStateArray(NV097_SET_LIGHT_AMBIENT_COLOR + 1024, 4, 3, 128, 2),
       OtherKey(NV097_SET_FOG_ENABLE),
       OtherKey(-1) >>

\* the entries of the pool in a set, in the pool's order
PoolEntries(chosen) == SelectSeq(ExpandPool, LAMBDA d : d \in chosen)

ExpandRegistries ==
    { PoolEntries(chosen) : chosen \in SUBSET { ExpandPool[k] : k \in DOMAIN ExpandPool } }

InitExpand == InitWith(ExpandRegistries)

NextExpand == PopulateTrackedOps

SpecExpand == InitExpand /\ [][NextExpand]_vars

\* the registry entries whose base opcode is in the interest set
InterestEntries ==
    { k \in DOMAIN registry : registry[k].base \in _BASE_TRACKED_NV097_OPS }

\* the opcodes the claim gives a descriptor
ClaimedOps(d) ==
    CASE d.kind = "int" -> {d.base}
      [] d.kind = "StateArray" ->
           { d.base + i * d.stride : i \in Range(d.num_elements) }
      [] d.kind = "StructStateArray" ->
           { d.base + j * d.struct_stride + i * d.stride :
               j \in Range(d.struct_count), i \in Range(d.num_elements) }
      [] OTHER -> {}

\* C5: after _populate_tracked_ops the tracked set is the union, over the
\* registry descriptors whose base is in the interest set, of the opcodes of
\* their elements, and the map holds those bases, each with its descriptor
C5_ExpandExact ==
    imported =>
       /\ tracked = UNION { ClaimedOps(registry[k]) : k \in InterestEntries }
       /\ DOMAIN opToInfo = { registry[k].base : k \in InterestEntries }
       /\ \A k \in InterestEntries : opToInfo[registry[k].base] = registry[k]

\* C5 witness: populated from a registry that holds a scalar, an array and
\* a struct array of the interest set and a descriptor outside it
C5_Witness ==
    /\ imported
    /\ \A kind \in {"int", "StateArray", "StructStateArray"} :
          \E k \in InterestEntries : registry[k].kind = kind
    /\ InterestEntries # DOMAIN registry
    /\ tracked # {}

\* C6: _populate_tracked_ops over a registry that holds a key of another
\* kind raises, and leaves no such key in the map
C6_ExpandRejectsUnknownKind ==
    ( /\ ret.fn = "_populate_tracked_ops"
      /\ \E k \in DOMAIN registry : registry[k].kind = "Other" ) =>
       /\ IsRaise(ret.val)
       /\ \A b \in DOMAIN opToInfo : opToInfo[b].kind # "Other"

----------------------------------------------------------------------------
(* SpecReport: the report over registries of the shape the report builder  *)
(* reads: POINT_PARAMS an array of 8, TEXGEN_S/T/R/Q arrays of one length, *)
(* TEXTURE_MATRIX_ENABLE an array, the other interest opcodes scalars.     *)

RegKelvin ==
    << Scalar(NV097_NO_OPERATION),
       Scalar(NV097_SET_LIGHT_CONTROL),
       Scalar(NV097_SET_COLOR_MATERIAL),
       Scalar(NV097_SET_FOG_GEN_MODE),
       Scalar(NV097_SET_FOG_ENABLE),
       Scalar(NV097_SET_LIGHTING_ENABLE),
       Scalar(NV097_SET_POINT_PARAMS_ENABLE),
       Scalar(NV097_SET_POINT_SMOOTH_ENABLE),
       Scalar(NV097_SET_SKIN_MODE),
       Scalar(NV097_SET_SPECULAR_ENABLE),
       Scalar(NV097_SET_LIGHT_ENABLE_MASK),
       StateArray(NV097_SET_TEXGEN_S, 16, 4),
       StateArray(NV097_SET_TEXGEN_T, 16, 4),
       StateArray(NV097_SET_TEXGEN_R, 16, 4),
       StateArray(NV097_SET_TEXGEN_Q, 16, 4),
       StateArray(NV097_SET_TEXTURE_MATRIX_ENABLE, 4, 4),
       Scalar(NV097_SET_POINT_SIZE),
       StateArray(NV097_SET_POINT_PARAMS, 4, 8),
       StructStateArray(NV097_SET_LIGHT_AMBIENT_COLOR, 4, 3, 128, 8),
       Scalar(NV097_SET_TWO_SIDE_LIGHT_EN) >>

\* a registry of the same shape with shorter texgen arrays, and with no
\* entry for the skinning mode and the texture matrix enables
RegCompact ==
    << Scalar(NV097_SET_FOG_GEN_MODE),
       Scalar(NV097_SET_FOG_ENABLE),
       Scalar(NV097_SET_LIGHTING_ENABLE),
       Scalar(NV097_SET_POINT_PARAMS_ENABLE),
       Scalar(NV097_SET_POINT_SMOOTH_ENABLE),
       Scalar(NV097_SET_SPECULAR_ENABLE),
       StateArray(NV097_SET_TEXGEN_S, 16, 2),
       StateArray(NV097_SET_TEXGEN_T, 16, 2),
       StateArray(NV097_SET_TEXGEN_R, 16, 2),
       StateArray(NV097_SET_TEXGEN_Q, 16, 2),
       Scalar(NV097_SET_POINT_SIZE),
       StateArray(NV097_SET_POINT_PARAMS, 4, 8),
       Scalar(NV097_SET_TWO_SIDE_LIGHT_EN) >>

ReportRegistries == {RegKelvin, RegCompact}

\* the bits of the float 1.0, and the largest parameter the model's integers
\* hold (a NaN)
FloatOneBits == 127 * 8388608
FloatNaNBits == 255 * 8388608 + 8388607

\* the frames of a report: the enable flags and modes
FlagUpdates ==
    ({ NV097_SET_LIGHTING_ENABLE, NV097_SET_TWO_SIDE_LIGHT_EN, NV097_SET_FOG_ENABLE,
       NV097_SET_POINT_SMOOTH_ENABLE } \X {0, 1})
    \cup ({ NV097_SET_COLOR_MATERIAL, NV097_SET_FOG_GEN_MODE, NV097_SET_SKIN_MODE,
            NV097_SET_SPECULAR_ENABLE, NV097_NO_OPERATION } \X {1})

\* the point sprite registers, the array element by element
PointUpdates ==
    ({ NV097_SET_POINT_PARAMS_ENABLE } \X {0, 1})
    \cup ({ NV097_SET_POINT_SIZE } \X {FloatOneBits})
    \cup ({ NV097_SET_POINT_PARAMS + 4 * i : i \in 0 .. 8 } \X {FloatOneBits})
    \cup ({ NV097_SET_POINT_PARAMS } \X {FloatNaNBits})

\* the texgen arrays: S element by element, one element of T, R and Q
TexGenUpdates ==
    ({ NV097_SET_TEXGEN_S + 16 * i : i \in 0 .. 4 } \X {1})
    \cup ({ NV097_SET_TEXGEN_T, NV097_SET_TEXGEN_R + 16, NV097_SET_TEXGEN_Q + 48 } \X {0})

\* the texture matrix enables, element by element
MatrixUpdates ==
    { NV097_SET_TEXTURE_MATRIX_ENABLE + 4 * i : i \in 0 .. 4 } \X {0, 1}

ReportUpdates == {FlagUpdates, PointUpdates, TexGenUpdates, MatrixUpdates}

InitReport == InitWith(ReportRegistries)

NextReport ==
    \/ PopulateTrackedOps
    \/ NewFrame
    \/ Update(ReportUpdates)
    \/ Report

SpecReport == InitReport /\ [][NextReport]_vars

\* the elements of the array at base opcode b that are stored
StoredElements(b) ==
    { i \in Range(opToInfo[b].num_elements) : Present(opToInfo[b], 0, i) }

Unknown == PyStr("<UNKNOWN>")

\* the lines of a report with no updates, up to the texgen header
EmptyReportHead ==
    << Line("Lighting", <<PyBool(FALSE)>>),
       Line("Specular enable", <<PyBool(FALSE)>>),
       Line("Fog enable", <<PyBool(FALSE)>>),
       Line("Skinning mode", <<Unknown>>),
       Line("Point params enable", <<PyBool(FALSE)>>),
       Line("TexGen header", <<>>) >>

\* C8 as claimed: with no updates the report is lighting, specular, fog and
\* point params disabled, skinning <UNKNOWN>, and the texgen header alone
C8_EmptyReportHeaderOnly ==
    (ret.fn = "__str__" /\ state = EmptyDict) => ret.val = PyText(EmptyReportHead)

\* C8 as amended: with no updates the report is lighting, specular, fog and
\* point params disabled, skinning <UNKNOWN>, no point smooth line, the
\* texgen header followed by one line per texgen element index showing
\* <UNKNOWN> for S, T, R and Q, and no texture matrix line
C8_EmptyReportUnknownTexGen ==
    (ret.fn = "__str__" /\ state = EmptyDict) =>
       ret.val = PyText(EmptyReportHead \o
                        [k \in 1 .. opToInfo[NV097_SET_TEXGEN_S].num_elements |->
                            Line("TexGen", <<PyInt(k - 1), Unknown, Unknown,
                                             Unknown, Unknown>>)])

\* C8 witness: the report of a frame state with no updates has been made
C8_Witness ==
    /\ ret.fn = "__str__"
    /\ state = EmptyDict
    /\ ret.val.t = "text"
    /\ Len(ret.val.v) > Len(EmptyReportHead)

----------------------------------------------------------------------------
(* SpecTexGen: the texgen section over registries whose four texgen arrays *)
(* have any lengths, empty and unequal ones among them.                    *)

\* the texgen arrays have 0 .. MaxTexGenLen elements
MaxTexGenLen == 2

TexGenRegistry(s, t, r, q) ==
    << Scalar(NV097_SET_LIGHTING_ENABLE),
       StateArray(NV097_SET_TEXGEN_S, 16, s),
       StateArray(NV097_SET_TEXGEN_T, 16, t),
       StateArray(NV097_SET_TEXGEN_R, 16, r),
       StateArray(NV097_SET_TEXGEN_Q, 16, q) >>

TexGenRegistries ==
    { TexGenRegistry(s, t, r, q) : s, t, r, q \in 0 .. MaxTexGenLen }

InitTexGen == InitWith(TexGenRegistries)

NextTexGen ==
    \/ PopulateTrackedOps
    \/ NewFrame
    \/ Update({TexGenUpdates})
    \/ Report

SpecTexGen == InitTexGen /\ [][NextTexGen]_vars

\* the per-index texgen lines of a report
TexGenLinesOf(text) == SelectSeq(text.v, LAMBDA l : l.fmt = "TexGen")

\* a decoded result is a non-empty list
NonEmptyList(x) == x.t = "list" /\ Len(x.v) > 0

\* C10: the report holds one texgen line per element index, combining the
\* decoded S, T, R and Q strings of that index, if and only if the four
\* decoded results are non-empty sequences of equal length; in every other
\* case it holds the texgen header and no such line
C10_TexGenLinesIffEqualLength ==
    ret.fn = "__str__" =>
       LET s_vals == Decode(state, opToInfo, NV097_SET_TEXGEN_S)
           t_vals == Decode(state, opToInfo, NV097_SET_TEXGEN_T)
           r_vals == Decode(state, opToInfo, NV097_SET_TEXGEN_R)
           q_vals == Decode(state, opToInfo, NV097_SET_TEXGEN_Q)
           equal == /\ \A x \in {s_vals, t_vals, r_vals, q_vals} : NonEmptyList(x)
                    /\ \A x \in {t_vals, r_vals, q_vals} : Len(x.v) = Len(s_vals.v)
       IN /\ ret.val.t = "text"
          /\ TexGenLinesOf(ret.val) =
               IF equal
               THEN [k \in 1 .. Len(s_vals.v) |->
                       Line("TexGen", <<PyInt(k - 1), s_vals.v[k], t_vals.v[k],
                                        r_vals.v[k], q_vals.v[k]>>)]
               ELSE <<>>

====
